---- MODULE Spec2Model ----
(***************************************************************************)
(* Model of the FEC import wizard                                          *)
(*   src/l10n_fr_fec_import_without_customers/wizard/import_wizard.py      *)
(*                                                                         *)
(* Amounts are integers counted in minor units of the company currency     *)
(* (1 = 0.01).  Python's "" / None / False are modelled by the empty       *)
(* string, the empty tuple or 0 of the field's own type; an optional dict  *)
(* key is a has_<key> flag next to the value.  Account codes are tuples    *)
(* of digits so that rstrip('0') is computed, not assumed.                 *)
(***************************************************************************)
EXTENDS Integers, Sequences, FiniteSets, TLC

VARIABLES
    rows,          \* the row stream handed to the generators
    cache,         \* the resolution cache (dict of dicts)
    \* ---- _generator_fec_account_move ----
    pc,            \* position of the move aggregator
    idx,           \* number of rows the aggregator has consumed
    moves_dict,    \* insertion-ordered dict: sequence of move records
    balance_dict,  \* move_key -> [balance, matching]
    imbalances,    \* <<journal_id, move_date>> -> sequence of line references
    lines,         \* heap of line_data dicts, referenced by position; one per row
    imbalanced_journals, \* result of _check_rounding_issues
    emitted,       \* moves yielded so far
    err,           \* the exception that ended the aggregator, "" if none
    \* ---- _generator_fec_res_partner ----
    ppc,           \* position of the partner generator
    pidx,          \* number of rows the partner generator has consumed
    partners_set,  \* seen (name, ref) pairs
    payloads,      \* payloads yielded so far, each tagged with its row
    \* ---- _import_files ----
    ipc,           \* position of the import run
    models,        \* the list of entity kinds of this run
    mi,            \* number of kinds whose loop body has completed
    loaded,        \* kinds for which _load_records has been called, in order
    cache_ext      \* kinds folded into the cache by _update_import_cache

aggVars    == <<pc, idx, moves_dict, balance_dict, imbalances, lines,
                imbalanced_journals, emitted, err>>
partnerVars == <<ppc, pidx, partners_set, payloads>>
importVars == <<ipc, models, mi, loaded, cache_ext>>
vars == <<rows, cache, aggVars, partnerVars, importVars>>

\* ------------------------------------------------------------------------
\* Bounds
\* ------------------------------------------------------------------------
MaxRows == 3          \* rows of a stream in Spec
MaxFieldRows == 2     \* rows of a stream in SpecFields
MaxPartnerRows == 3   \* rows of a stream in SpecPartner
MaxImportRows == 2    \* rows of a stream in SpecImport

\* ------------------------------------------------------------------------
\* Helpers standing for Python / Odoo primitives
\* ------------------------------------------------------------------------
Abs(x) == IF x < 0 THEN -x ELSE x

Sign(x) == IF x > 0 THEN 1 ELSE IF x < 0 THEN -1 ELSE 0

\* str.rstrip('0') on a tuple of digits
RECURSIVE rstrip0(_)
rstrip0(s) ==
    IF s = <<>> THEN <<>>
    ELSE IF s[Len(s)] = 0 THEN rstrip0(SubSeq(s, 1, Len(s) - 1))
    ELSE s

\* the date strings datetime.strptime(_, "%Y%m%d") accepts, with their value
DateValue ==
    ("20240105" :> <<2024, 1, 5>>) @@ ("20240106" :> <<2024, 1, 6>>)

\* x and datetime.datetime.strptime(x, "%Y%m%d"): "" stays falsy (<<>>)
strptime_ok(s) == s = "" \/ s \in DOMAIN DateValue

strptime(s) == IF s = "" THEN <<>> ELSE DateValue[s]

\* currency.round(x): nearest multiple of the currency's rounding, half up
\* in magnitude
currency_round(rounding, x) ==
    Sign(x) * (((2 * Abs(x) + rounding) \div (2 * rounding)) * rounding)

\* dict.get(key, None) is not None
Has(d, k) == k \in DOMAIN d

\* ------------------------------------------------------------------------
\* The resolution cache the generators read
\* ------------------------------------------------------------------------
\* self.company_id.currency_id
company_currency == [id |-> 1, rounding |-> 1]

\* res.partner entries the cache may hold before the run
NoPartners == [partner |-> <<>>, partner_ref |-> <<>>]

OnePartner ==
    [partner     |-> ("Acme" :> [id |-> 7, ref |-> "R1"]),
     partner_ref |-> ("R1" :> [id |-> 7])]

\* cache as returned by _build_import_cache, for a choice of known partners
BuildCache(p) ==
    [account |-> (<<4, 1, 1>> :> [id |-> 11, account_type |-> "asset_receivable"])
              @@ (<<4, 0, 1>> :> [id |-> 12, account_type |-> "liability_payable"])
              @@ (<<7>> :> [id |-> 13, account_type |-> "income"]),
     journal |-> ("BQ" :> [id |-> 1, code |-> "BQ"])
              @@ ("VT" :> [id |-> 2, code |-> "VT"]),
     mapping_journal_code |-> ("BANQUE" :> "BQ") @@ ("ACHATS" :> "AC"),
     partner     |-> p.partner,
     partner_ref |-> p.partner_ref,
     currency |-> ("USD" :> [id |-> 2, rounding |-> 1])
               @@ ("CHF" :> [id |-> 3, rounding |-> 5])]

\* ------------------------------------------------------------------------
\* _generator_fec_account_move: one row
\* ------------------------------------------------------------------------
\* move_name = ecriture_num or piece_ref
move_name(r) == IF r.EcritureNum # "" THEN r.EcritureNum ELSE r.PieceRef

\* move_date = (move_date and strptime(move_date)) or piece_date
move_date(r) ==
    IF strptime(r.EcritureDate) # <<>> THEN strptime(r.EcritureDate)
    ELSE strptime(r.PieceDate)

\* the cache key of the journal the row resolves to, "" when journal is None
journal_key(c, r) ==
    IF Has(c.journal, r.JournalCode) THEN r.JournalCode
    ELSE IF Has(c.mapping_journal_code, r.JournalCode)
            /\ c.mapping_journal_code[r.JournalCode] # ""
            /\ Has(c.journal, c.mapping_journal_code[r.JournalCode])
         THEN c.mapping_journal_code[r.JournalCode]
         ELSE ""

\* move_key = "%s/%s" % (journal.code, move_name)
move_key(c, r) == <<c.journal[journal_key(c, r)].code, "/", move_name(r)>>

\* currency used for rounding: the row's if Idevise is cached, else the company's
row_currency(c, r) ==
    IF Has(c.currency, r.Idevise) THEN c.currency[r.Idevise] ELSE company_currency

\* _normalize_float_value(record, key): the raw text of a number is <<n>>,
\* the empty text <<>> reads as 0.0
normalize_float_value(v) == IF v = <<>> THEN 0 ELSE v[1]

\* _get_credit_debit_balance accepts the row's amount encoding
amount_encoding_ok(r) == r.Sens \in {"", "D", "C"}

\* _get_credit_debit_balance(record, currency) -> credit, debit, balance
get_credit_debit_balance(r, currency) ==
    LET credit == IF r.Sens = "" THEN currency_round(currency.rounding, normalize_float_value(r.Credit))
                  ELSE IF r.Sens = "C" THEN currency_round(currency.rounding, normalize_float_value(r.Montant))
                  ELSE 0
        debit  == IF r.Sens = "" THEN currency_round(currency.rounding, normalize_float_value(r.Debit))
                  ELSE IF r.Sens = "D" THEN currency_round(currency.rounding, normalize_float_value(r.Montant))
                  ELSE 0
    IN  [credit |-> credit, debit |-> debit,
         balance |-> currency_round(currency.rounding, debit - credit)]

\* the exception row r raises, "" when it raises none
row_error(c, r) ==
    IF move_name(r) = "" THEN "invalid move name"
    ELSE IF ~strptime_ok(r.PieceDate) \/ ~strptime_ok(r.EcritureDate) THEN "ValueError"
    ELSE IF journal_key(c, r) = "" THEN "invalid journal code"
    ELSE IF ~Has(c.account, rstrip0(r.CompteNum)) THEN "invalid account"
    ELSE IF ~amount_encoding_ok(r) THEN "invalid amount encoding"
    ELSE ""

\* line_partner looking the ref up in res.partner (keyed by name) instead of
\* res.partner.ref
line_partner_by_name(c, r) ==
    IF r.CompAuxNum # ""
    THEN [has_partner_id |-> TRUE,
          partner_id |-> IF Has(c.partner, r.CompAuxNum)
                         THEN c.partner[r.CompAuxNum].id ELSE 0]
    ELSE [has_partner_id |-> FALSE, partner_id |-> 0]

\* line_data["partner_id"] = partner.id if partner else False, only if partner_ref
line_partner(c, r) ==
    IF r.CompAuxNum # ""
    THEN [has_partner_id |-> TRUE,
          partner_id |-> IF Has(c.partner_ref, r.CompAuxNum)
                         THEN c.partner_ref[r.CompAuxNum].id ELSE 0]
    ELSE [has_partner_id |-> FALSE, partner_id |-> 0]

\* the sign normalisation left out
normalized_amount_currency_kept(amount_currency, balance) == amount_currency

\* amount_currency after the sign normalisation of lines 173-176
normalized_amount_currency(amount_currency, balance) ==
    IF amount_currency * balance < 0 THEN -amount_currency ELSE amount_currency

\* line_data as appended for row r
build_line(c, r) ==
    LET cdb == get_credit_debit_balance(r, row_currency(c, r))
        p   == line_partner(c, r)
        cur == Has(c.currency, r.Idevise)
    IN  [ref |-> r.PieceRef,
         account_id |-> c.account[rstrip0(r.CompteNum)].id,
         fec_matching_number |-> r.EcritureLet,
         has_partner_id |-> p.has_partner_id,
         partner_id |-> p.partner_id,
         has_currency |-> cur,
         currency_id |-> IF cur THEN c.currency[r.Idevise].id ELSE 0,
         amount_currency |->
             IF cur THEN normalized_amount_currency(
                             normalize_float_value(r.Montantdevise), cdb.balance)
             ELSE 0,
         credit |-> cdb.credit,
         debit |-> cdb.debit]

\* position of move_key in moves_dict, 0 when absent
RECURSIVE key_pos(_, _)
key_pos(md, k) ==
    IF md = <<>> THEN 0
    ELSE IF md[Len(md)].key = k THEN Len(md)
    ELSE key_pos(SubSeq(md, 1, Len(md) - 1), k)

\* moves_dict_put moving a key that is seen again to the end of the dict
moves_dict_put_reinsert(md, c, r, i) ==
    LET k == move_key(c, r)
        p == key_pos(md, k)
    IN  IF p = 0
        THEN Append(md, [key |-> k,
                         name |-> move_name(r),
                         date |-> move_date(r),
                         ref |-> r.PieceRef,
                         journal_id |-> c.journal[journal_key(c, r)].id,
                         line_ids |-> <<i>>])
        ELSE Append(SubSeq(md, 1, p - 1) \o SubSeq(md, p + 1, Len(md)),
                    [md[p] EXCEPT !.line_ids = Append(@, i)])

\* moves_dict after data["line_ids"].append(...) and moves_dict[move_key] = data
moves_dict_put(md, c, r, i) ==
    LET k == move_key(c, r)
        p == key_pos(md, k)
    IN  IF p = 0
        THEN Append(md, [key |-> k,
                         name |-> move_name(r),
                         date |-> move_date(r),
                         ref |-> r.PieceRef,
                         journal_id |-> c.journal[journal_key(c, r)].id,
                         line_ids |-> <<i>>])
        ELSE [md EXCEPT ![p].line_ids = Append(@, i)]

\* balance_dict after lines 129, 148, 171 and 184
balance_dict_put(bd, c, r) ==
    LET k   == move_key(c, r)
        old == IF Has(bd, k) THEN bd[k] ELSE [balance |-> 0, matching |-> ""]
        cur == row_currency(c, r)
        new == [balance |-> currency_round(cur.rounding,
                                old.balance + get_credit_debit_balance(r, cur).balance),
                matching |-> IF old.matching # "" THEN old.matching ELSE r.EcritureLet]
    IN  [x \in DOMAIN bd \cup {k} |-> IF x = k THEN new ELSE bd[x]]

\* the bucket key of imbalances[journal.id][move_date]
bucket_key(c, r) == <<c.journal[journal_key(c, r)].id, move_date(r)>>

\* imbalances after imbalances[journal.id][move_date].append(line_data)
imbalances_put(im, c, r, i) ==
    LET b == bucket_key(c, r)
    IN  [x \in DOMAIN im \cup {b} |->
            IF x = b THEN Append(IF Has(im, b) THEN im[b] ELSE <<>>, i) ELSE im[x]]

\* ------------------------------------------------------------------------
\* Balance reconciler (called at lines 187 and 192)
\* ------------------------------------------------------------------------
\* tolerance band of phase 1, in minor units
Tolerance == 2

\* a line after its debit or credit absorbed the residual
adjust_line(l, residual) ==
    IF residual > 0 THEN [l EXCEPT !.credit = @ + residual]
    ELSE [l EXCEPT !.debit = @ - residual]

\* phase 1 repairs this move: small residual and no matching tag
phase1_fixable(bd, k) ==
    /\ bd[k].balance # 0
    /\ bd[k].matching = ""
    /\ Abs(bd[k].balance) <= Tolerance

\* _check_rounding_issues(moves_dict, balance_dict): lines, balances, and the
\* journals that still hold an imbalanced move
check_rounding_issues(md, bd, ls) ==
    LET fixed(i) == {p \in DOMAIN md :
                        /\ phase1_fixable(bd, md[p].key)
                        /\ md[p].line_ids[Len(md[p].line_ids)] = i}
    IN  [lines |-> [i \in DOMAIN ls |->
                      IF fixed(i) # {}
                      THEN adjust_line(ls[i], bd[md[CHOOSE p \in fixed(i) : TRUE].key].balance)
                      ELSE ls[i]],
         balance_dict |-> [k \in DOMAIN bd |->
                      IF phase1_fixable(bd, k) THEN [bd[k] EXCEPT !.balance = 0]
                      ELSE bd[k]],
         imbalanced_journals |->
             {md[p].journal_id : p \in {q \in DOMAIN md :
                  bd[md[q].key].balance # 0 /\ ~phase1_fixable(bd, md[q].key)}}]

RECURSIVE sum_balance(_, _)
sum_balance(ls, ids) ==
    IF ids = <<>> THEN 0
    ELSE ls[Head(ids)].debit - ls[Head(ids)].credit + sum_balance(ls, Tail(ids))

\* the (journal, date) buckets phase 2 looks at
phase2_buckets(md, bd, im, ij) ==
    {b \in DOMAIN im :
        /\ b[1] \in ij
        /\ \E p \in DOMAIN md :
              md[p].journal_id = b[1] /\ md[p].date = b[2] /\ bd[md[p].key].balance # 0}

\* the bucket cannot be balanced as a whole
phase2_unrecoverable(ls, im, b) ==
    currency_round(company_currency.rounding, sum_balance(ls, im[b])) # 0

line_amount(l) == IF l.debit > l.credit THEN l.debit ELSE l.credit

\* the first line of the bucket with the largest absolute amount
largest_line(ls, ids) ==
    LET top == {n \in DOMAIN ids :
                   \A m \in DOMAIN ids : line_amount(ls[ids[m]]) <= line_amount(ls[ids[n]])}
    IN  ids[CHOOSE n \in top : \A m \in top : n <= m]

RECURSIVE sum_residual(_, _, _)
sum_residual(bd, ks, positive) ==
    IF ks = {} THEN 0
    ELSE LET k == CHOOSE x \in ks : TRUE
             v == bd[k].balance
         IN  (IF positive THEN (IF v > 0 THEN v ELSE 0) ELSE (IF v < 0 THEN -v ELSE 0))
             + sum_residual(bd, ks \ {k}, positive)

\* _check_imbalanced_journals(...) when no bucket is unrecoverable
check_imbalanced_journals(md, bd, ls, im, ij) ==
    LET bs == phase2_buckets(md, bd, im, ij)
        open(b) == {md[p].key : p \in {q \in DOMAIN md :
                       md[q].journal_id = b[1] /\ md[q].date = b[2]
                       /\ bd[md[q].key].balance # 0}}
        target(i) == {b \in bs : largest_line(ls, im[b]) = i}
    IN  [lines |-> [i \in DOMAIN ls |->
                      IF target(i) # {}
                      THEN LET b == CHOOSE x \in target(i) : TRUE
                           IN  [ls[i] EXCEPT
                                  !.credit = @ + sum_residual(bd, open(b), TRUE),
                                  !.debit  = @ + sum_residual(bd, open(b), FALSE)]
                      ELSE ls[i]],
         balance_dict |-> [k \in DOMAIN bd |->
                      IF \E b \in bs : k \in open(b) THEN [bd[k] EXCEPT !.balance = 0]
                      ELSE bd[k]]]

\* ------------------------------------------------------------------------
\* _import_files: the loop over the kinds
\* ------------------------------------------------------------------------
\* line 218
DefaultModels == <<"account.account", "account.journal", "account.move">>

ImportInit ==
    /\ ipc = "start"
    /\ mi = 0
    /\ loaded = <<>>
    /\ cache_ext = {}

\* the kind the loop of line 239 is at
current_model == models[mi + 1]

in_loop(kind) == ipc = "loop" /\ mi < Len(models) /\ current_model = kind

\* the generator for kind is being drained: by the loop of line 252, or by a
\* direct caller when no import run is modelled (ipc = "idle")
drained(kind) == ipc = "idle" \/ in_loop(kind)

\* ------------------------------------------------------------------------
\* _generator_fec_account_move as a state machine
\* ------------------------------------------------------------------------
AggInit ==
    /\ pc = "rows"
    /\ idx = 0
    /\ moves_dict = <<>>
    /\ balance_dict = <<>>
    /\ imbalances = <<>>
    /\ lines = <<>>
    /\ imbalanced_journals = {}
    /\ emitted = <<>>
    /\ err = <<>>

\* one iteration of the loop of line 76 that reaches line 184
AggRow ==
    /\ drained("account.move")
    /\ UNCHANGED <<rows, cache, partnerVars, importVars>>
    /\ pc = "rows"
    /\ idx < Len(rows)
    /\ row_error(cache, rows[idx + 1]) = ""
    /\ LET r == rows[idx + 1]
           i == Len(lines) + 1
       IN  /\ lines' = Append(lines, build_line(cache, r))
           /\ moves_dict' = moves_dict_put(moves_dict, cache, r, i)
           /\ balance_dict' = balance_dict_put(balance_dict, cache, r)
           /\ imbalances' = imbalances_put(imbalances, cache, r, i)
    /\ idx' = idx + 1
    /\ UNCHANGED <<pc, imbalanced_journals, emitted, err>>

\* the offending row skipped instead of raising
AggRowRaise_skip ==
    /\ drained("account.move")
    /\ UNCHANGED <<rows, cache, partnerVars, importVars>>
    /\ pc = "rows"
    /\ idx < Len(rows)
    /\ row_error(cache, rows[idx + 1]) # ""
    /\ idx' = idx + 1
    /\ UNCHANGED <<pc, moves_dict, balance_dict, imbalances, lines,
                   imbalanced_journals, emitted, err>>

\* one iteration that raises (lines 85, 89-91, 115, 136, 168)
AggRowRaise ==
    /\ drained("account.move")
    /\ UNCHANGED <<rows, cache, partnerVars, importVars>>
    /\ pc = "rows"
    /\ idx < Len(rows)
    /\ row_error(cache, rows[idx + 1]) # ""
    /\ pc' = "raised"
    /\ err' = <<row_error(cache, rows[idx + 1]), idx>>
    /\ UNCHANGED <<idx, moves_dict, balance_dict, imbalances, lines,
                   imbalanced_journals, emitted>>

\* line 187: the stream is exhausted, phase 1 runs
AggCheckRounding ==
    /\ drained("account.move")
    /\ UNCHANGED <<rows, cache, partnerVars, importVars>>
    /\ pc = "rows"
    /\ idx = Len(rows)
    /\ LET res == check_rounding_issues(moves_dict, balance_dict, lines)
       IN  /\ lines' = res.lines
           /\ balance_dict' = res.balance_dict
           /\ imbalanced_journals' = res.imbalanced_journals
           /\ pc' = IF res.imbalanced_journals # {} THEN "phase2" ELSE "yield"
    /\ UNCHANGED <<idx, moves_dict, imbalances, emitted, err>>

\* lines 191-192: phase 2 regroups by journal and date
AggCheckImbalanced ==
    /\ drained("account.move")
    /\ UNCHANGED <<rows, cache, partnerVars, importVars>>
    /\ pc = "phase2"
    /\ \A b \in phase2_buckets(moves_dict, balance_dict, imbalances, imbalanced_journals) :
           ~phase2_unrecoverable(lines, imbalances, b)
    /\ LET res == check_imbalanced_journals(moves_dict, balance_dict, lines,
                                            imbalances, imbalanced_journals)
       IN  /\ lines' = res.lines
           /\ balance_dict' = res.balance_dict
    /\ pc' = "yield"
    /\ UNCHANGED <<idx, moves_dict, imbalances, imbalanced_journals, emitted, err>>

\* lines 191-192: phase 2 finds a bucket that does not balance and raises
AggCheckImbalancedRaise ==
    /\ drained("account.move")
    /\ UNCHANGED <<rows, cache, partnerVars, importVars>>
    /\ pc = "phase2"
    /\ \E b \in phase2_buckets(moves_dict, balance_dict, imbalances, imbalanced_journals) :
           /\ phase2_unrecoverable(lines, imbalances, b)
           /\ err' = <<"imbalance", b>>
    /\ pc' = "raised"
    /\ UNCHANGED <<idx, moves_dict, balance_dict, imbalances, lines,
                   imbalanced_journals, emitted>>

\* moves yielded while rows are still being consumed
AggYield_streaming ==
    /\ drained("account.move")
    /\ UNCHANGED <<rows, cache, partnerVars, importVars>>
    /\ pc \in {"rows", "yield"}
    /\ Len(emitted) < Len(moves_dict)
    /\ emitted' = Append(emitted, moves_dict[Len(emitted) + 1])
    /\ UNCHANGED <<pc, idx, moves_dict, balance_dict, imbalances, lines,
                   imbalanced_journals, err>>

\* line 194: yield from moves_dict.values(), one move per step
AggYield ==
    /\ drained("account.move")
    /\ UNCHANGED <<rows, cache, partnerVars, importVars>>
    /\ pc = "yield"
    /\ Len(emitted) < Len(moves_dict)
    /\ emitted' = Append(emitted, moves_dict[Len(emitted) + 1])
    /\ UNCHANGED <<pc, idx, moves_dict, balance_dict, imbalances, lines,
                   imbalanced_journals, err>>

\* the generator returns
AggReturn ==
    /\ drained("account.move")
    /\ UNCHANGED <<rows, cache, partnerVars, importVars>>
    /\ pc = "yield"
    /\ Len(emitted) = Len(moves_dict)
    /\ pc' = "done"
    /\ UNCHANGED <<idx, moves_dict, balance_dict, imbalances, lines,
                   imbalanced_journals, emitted, err>>

\* ------------------------------------------------------------------------
\* _generator_fec_res_partner as a state machine
\* ------------------------------------------------------------------------
PartnerInit ==
    /\ ppc = "rows"
    /\ pidx = 0
    /\ partners_set = {}
    /\ payloads = <<>>

\* the seen set not consulted
partner_is_new_unchecked(ps, r) == r.CompAuxLib # ""

\* line 36: the row opens a new (name, ref) pair
partner_is_new(ps, r) ==
    r.CompAuxLib # "" /\ <<r.CompAuxLib, r.CompAuxNum>> \notin ps

\* line 41: not existing or (partner_ref and partner_ref != existing.ref)
partner_to_create(c, r) ==
    IF ~Has(c.partner, r.CompAuxLib) THEN TRUE
    ELSE r.CompAuxNum # "" /\ r.CompAuxNum # c.partner[r.CompAuxLib].ref

\* lines 42-54: the payload; row is the index of the row it was built from
partner_payload(c, r, i) ==
    LET found == r.CompteNum # <<>> /\ Has(c.account, rstrip0(r.CompteNum))
        acc   == c.account[rstrip0(r.CompteNum)]
    IN  [row |-> i,
         name |-> r.CompAuxLib,
         ref |-> r.CompAuxNum,
         property_account_receivable_id |->
             IF found /\ acc.account_type = "asset_receivable" THEN acc.id ELSE 0,
         property_account_payable_id |->
             IF found /\ acc.account_type = "liability_payable" THEN acc.id ELSE 0]

\* one iteration of the loop of line 30 that yields
PartnerRowYield ==
    /\ drained("res.partner")
    /\ UNCHANGED <<rows, cache, aggVars, importVars>>
    /\ ppc = "rows"
    /\ pidx < Len(rows)
    /\ partner_is_new(partners_set, rows[pidx + 1])
    /\ partner_to_create(cache, rows[pidx + 1])
    /\ partners_set' = partners_set \cup {<<rows[pidx + 1].CompAuxLib, rows[pidx + 1].CompAuxNum>>}
    /\ payloads' = Append(payloads, partner_payload(cache, rows[pidx + 1], pidx + 1))
    /\ pidx' = pidx + 1
    /\ UNCHANGED ppc

\* one iteration that yields nothing
PartnerRowSkip ==
    /\ drained("res.partner")
    /\ UNCHANGED <<rows, cache, aggVars, importVars>>
    /\ ppc = "rows"
    /\ pidx < Len(rows)
    /\ ~(partner_is_new(partners_set, rows[pidx + 1]) /\ partner_to_create(cache, rows[pidx + 1]))
    /\ partners_set' =
          IF partner_is_new(partners_set, rows[pidx + 1])
          THEN partners_set \cup {<<rows[pidx + 1].CompAuxLib, rows[pidx + 1].CompAuxNum>>}
          ELSE partners_set
    /\ pidx' = pidx + 1
    /\ UNCHANGED <<ppc, payloads>>

\* the generator returns
PartnerReturn ==
    /\ drained("res.partner")
    /\ UNCHANGED <<rows, cache, aggVars, importVars>>
    /\ ppc = "rows"
    /\ pidx = Len(rows)
    /\ ppc' = "done"
    /\ UNCHANGED <<pidx, partners_set, payloads>>

\* ------------------------------------------------------------------------
\* _import_files as a state machine
\* ------------------------------------------------------------------------
\* _update_import_cache(cache, model, records): created entities are folded in
update_import_cache(c, kind, created) ==
    IF kind = "res.partner"
    THEN LET names == {created[n].name : n \in DOMAIN created}
             refs  == {created[n].ref : n \in DOMAIN created} \ {""}
             last(match(_)) == CHOOSE n \in DOMAIN created :
                                  /\ match(created[n])
                                  /\ \A m \in DOMAIN created : match(created[m]) => m <= n
             byname(x) == LET n == last(LAMBDA q : q.name = x)
                          IN  [id |-> 100 + n, ref |-> created[n].ref]
             byref(x)  == [id |-> 100 + last(LAMBDA q : q.ref = x)]
         IN  [c EXCEPT
                !.partner = [x \in DOMAIN c.partner \cup names |->
                                IF x \in names THEN byname(x) ELSE c.partner[x]],
                !.partner_ref = [x \in DOMAIN c.partner_ref \cup refs |->
                                IF x \in refs THEN byref(x) ELSE c.partner_ref[x]]]
    ELSE c

\* lines 208-236: the run starts; models defaults when none is injected.
\* rows (line 236) is read again by every generator of the run.
ImportStart ==
    /\ ipc = "start"
    /\ models' = IF models = <<>> THEN DefaultModels ELSE models
    /\ ipc' = "loop"
    /\ UNCHANGED <<rows, cache, aggVars, partnerVars, mi, loaded, cache_ext>>

\* lines 239-263 for a kind whose generator is inherited: it yields n records,
\* which are loaded and folded into the cache when there are any
ImportInheritedKind ==
    /\ ipc = "loop"
    /\ mi < Len(models)
    /\ current_model \in {"account.account", "account.journal"}
    /\ \E n \in 0..1 :
          /\ loaded' = IF n > 0 THEN Append(loaded, current_model) ELSE loaded
          /\ cache_ext' = IF n > 0 THEN cache_ext \cup {current_model} ELSE cache_ext
    /\ mi' = mi + 1
    /\ UNCHANGED <<rows, cache, aggVars, partnerVars, ipc, models>>

\* the generator of the current kind has returned
generator_done ==
    \/ (current_model = "res.partner" /\ ppc = "done")
    \/ (current_model = "account.move" /\ pc = "done")

\* the records list of line 247, as gathered from the current generator
records == IF current_model = "res.partner" THEN payloads ELSE emitted

\* the records loaded but the cache not updated
ImportLoad_nofold ==
    /\ ipc = "loop"
    /\ mi < Len(models)
    /\ generator_done
    /\ loaded' = IF records # <<>> THEN Append(loaded, current_model) ELSE loaded
    /\ mi' = mi + 1
    /\ UNCHANGED <<rows, cache, cache_ext, aggVars, partnerVars, ipc, models>>

\* lines 260-263: load the gathered records and fold them into the cache
ImportLoad ==
    /\ ipc = "loop"
    /\ mi < Len(models)
    /\ generator_done
    /\ IF records # <<>>
       THEN /\ loaded' = Append(loaded, current_model)
            /\ cache_ext' = cache_ext \cup {current_model}
            /\ cache' = update_import_cache(cache, current_model, payloads)
       ELSE UNCHANGED <<loaded, cache_ext, cache>>
    /\ mi' = mi + 1
    /\ UNCHANGED <<rows, aggVars, partnerVars, ipc, models>>

\* the aggregator raised inside the loop of line 252: the run ends there
ImportAbort ==
    /\ in_loop("account.move")
    /\ pc = "raised"
    /\ ipc' = "aborted"
    /\ UNCHANGED <<rows, cache, aggVars, partnerVars, models, mi, loaded, cache_ext>>

\* lines 265-290: every kind is done; posting is left to the collaborators
ImportFinish ==
    /\ ipc = "loop"
    /\ mi = Len(models)
    /\ ipc' = "done"
    /\ UNCHANGED <<rows, cache, aggVars, partnerVars, models, mi, loaded, cache_ext>>

\* ------------------------------------------------------------------------
\* Row streams
\* ------------------------------------------------------------------------
BaseRow ==
    [EcritureNum |-> "E1", PieceRef |-> "P1",
     EcritureDate |-> "20240105", PieceDate |-> "20240105",
     JournalCode |-> "BQ", CompteNum |-> <<4, 1, 1, 0, 0>>,
     CompAuxNum |-> "", CompAuxLib |-> "",
     Idevise |-> "", Montantdevise |-> <<>>, EcritureLet |-> "",
     Debit |-> <<>>, Credit |-> <<>>, Montant |-> <<>>, Sens |-> ""]

Row(fields) == fields @@ BaseRow

SeqUpTo(S, n) == UNION {[1..k -> S] : k \in 0..n}

\* rows that group into moves, balance or not, or raise
GroupingRows ==
    { Row([EcritureNum |-> n, Debit |-> <<300>>]) : n \in {"E1", "E2"} }
    \cup { Row([EcritureNum |-> n, Credit |-> <<300>>, EcritureDate |-> "20240106"]) : n \in {"E1", "E2"} }
    \cup { Row([EcritureNum |-> n, Credit |-> <<299>>, JournalCode |-> "BANQUE"]) : n \in {"E1", "E2"} }
    \cup { Row([EcritureNum |-> n]) : n \in {"E1", "E2"} }
    \cup { Row([EcritureNum |-> "", Credit |-> <<300>>, EcritureDate |-> "", CompteNum |-> <<7>>]),
           Row([EcritureNum |-> "E1", Credit |-> <<301>>, EcritureLet |-> "AA", JournalCode |-> "VT"]),
           Row([EcritureNum |-> "", PieceRef |-> ""]),
           Row([JournalCode |-> "ACHATS"]),
           Row([CompteNum |-> <<4, 1, 0>>]) }

\* rows that exercise one field group at a time
FieldRows ==
    { Row([EcritureNum |-> "E1", Debit |-> <<3>>]),
      Row([EcritureNum |-> "E2", Credit |-> <<3>>]),
      Row([EcritureNum |-> "E1", Debit |-> <<2>>]),
      Row([EcritureDate |-> "2024"]),
      Row([Sens |-> "X", Montant |-> <<3>>]),
      Row([Idevise |-> "ZZZ", Montantdevise |-> <<3>>, Credit |-> <<3>>]) }
    \cup { Row([Idevise |-> c, Montantdevise |-> <<m>>, Debit |-> <<a[1]>>, Credit |-> <<a[2]>>]) :
              c \in {"USD", "CHF"}, m \in {-3, 0, 3}, a \in {<<2, 0>>, <<0, 2>>, <<0, 0>>} }
    \cup { Row([Idevise |-> "USD", Montantdevise |-> <<m>>, Sens |-> x, Montant |-> <<4>>]) :
              m \in {-3, 3}, x \in {"D", "C"} }
    \cup { Row([CompAuxNum |-> x, Debit |-> <<1>>]) : x \in {"R1", "R9"} }

\* rows that name partners
PartnerRows ==
    { Row([CompAuxLib |-> n, CompAuxNum |-> x, CompteNum |-> a]) :
         n \in {"", "Acme", "Bolt"}, x \in {"", "R1", "R2"},
         a \in {<<4, 1, 1, 0>>, <<4, 0, 1>>} }
    \cup { Row([CompAuxLib |-> "Acme", CompteNum |-> a]) : a \in {<<>>, <<7, 0>>, <<9>>} }

\* rows of an import run; the only row error is the empty move name, which
\* no kind loaded before account.move can resolve
ImportRows ==
    { Row([EcritureNum |-> "E1", Debit |-> <<3>>, CompAuxLib |-> "Acme", CompAuxNum |-> "R1"]),
      Row([EcritureNum |-> "E2", Credit |-> <<3>>, CompAuxLib |-> "Bolt", CompAuxNum |-> "R2"]),
      Row([EcritureNum |-> "E1", Credit |-> <<3>>]),
      Row([EcritureNum |-> "", PieceRef |-> "", CompAuxLib |-> "Bolt", CompAuxNum |-> "R2"]),
      Row([EcritureNum |-> "", PieceRef |-> ""]) }

\* the lists of kinds a run may be given; <<>> is models=None
ModelLists ==
    { <<>>,
      <<"account.move">>,
      <<"res.partner">>,
      <<"res.partner", "account.move">>,
      <<"account.move", "res.partner">>,
      <<"account.account", "account.journal", "res.partner", "account.move">> }

\* a generator or a run that is not started in this specification
ImportIdle == ipc = "idle" /\ models = <<>> /\ mi = 0
              /\ loaded = <<>> /\ cache_ext = {}

\* ------------------------------------------------------------------------
\* Specifications
\* ------------------------------------------------------------------------
\* the move aggregator alone, on streams that group, balance and raise
Init ==
    /\ rows \in SeqUpTo(GroupingRows, MaxRows)
    /\ cache = BuildCache(OnePartner)
    /\ AggInit
    /\ PartnerInit
    /\ ImportIdle

Next ==
    \/ AggRow
    \/ AggRowRaise
    \/ AggCheckRounding
    \/ AggCheckImbalanced
    \/ AggCheckImbalancedRaise
    \/ AggYield
    \/ AggReturn

Spec == Init /\ [][Next]_vars

\* the move aggregator alone, on streams that vary currency, amount and partner
InitFields ==
    /\ rows \in SeqUpTo(FieldRows, MaxFieldRows)
    /\ cache \in {BuildCache(NoPartners), BuildCache(OnePartner)}
    /\ AggInit
    /\ PartnerInit
    /\ ImportIdle

SpecFields == InitFields /\ [][Next]_vars

\* the partner generator alone
InitPartner ==
    /\ rows \in SeqUpTo(PartnerRows, MaxPartnerRows)
    /\ cache \in {BuildCache(NoPartners), BuildCache(OnePartner)}
    /\ AggInit
    /\ PartnerInit
    /\ ImportIdle

NextPartner ==
    \/ PartnerRowYield
    \/ PartnerRowSkip
    \/ PartnerReturn

SpecPartner == InitPartner /\ [][NextPartner]_vars

\* an import run
InitImport ==
    /\ rows \in SeqUpTo(ImportRows, MaxImportRows)
    /\ cache \in {BuildCache(NoPartners), BuildCache(OnePartner)}
    /\ models \in ModelLists
    /\ AggInit
    /\ PartnerInit
    /\ ImportInit

NextImport ==
    \/ ImportStart
    \/ PartnerRowYield
    \/ PartnerRowSkip
    \/ PartnerReturn
    \/ AggRow
    \/ AggRowRaise
    \/ AggCheckRounding
    \/ AggCheckImbalanced
    \/ AggCheckImbalancedRaise
    \/ AggYield
    \/ AggReturn
    \/ ImportInheritedKind
    \/ ImportLoad
    \/ ImportAbort
    \/ ImportFinish

SpecImport == InitImport /\ [][NextImport]_vars

\* ------------------------------------------------------------------------
\* Properties
\* ------------------------------------------------------------------------
Range(f) == {f[x] : x \in DOMAIN f}

\* the row errors the aggregator raises itself (lines 85, 115, 136)
RowErrors == {"invalid move name", "invalid journal code", "invalid account"}

\* the aggregator has consumed its first row
AggConsumed == idx > 0 \/ pc = "raised"

\* the aggregator was ended by a row error
RowErrorRaised == pc = "raised" /\ err[1] \in RowErrors

\* C2: if any row of the stream triggers a fatal row error (empty move name,
\* unresolvable journal code, unresolvable account code), the aggregator
\* emits no move at all, wherever that row stands in the stream.
C2_NoMoveOnFatalRow ==
    (\E i \in DOMAIN rows : row_error(cache, rows[i]) \in RowErrors)
        => emitted = <<>>

\* C2 witness: the third row raised after two valid rows were grouped
C2_Witness ==
    /\ RowErrorRaised
    /\ err[2] = 2
    /\ Len(moves_dict) = 2
    /\ emitted = <<>>

\* the move keys of an error-free stream in the order they are first seen
RECURSIVE first_seen_keys(_, _)
first_seen_keys(c, rs) ==
    IF rs = <<>> THEN <<>>
    ELSE LET before == first_seen_keys(c, SubSeq(rs, 1, Len(rs) - 1))
             k == move_key(c, rs[Len(rs)])
         IN  IF k \in Range(before) THEN before ELSE Append(before, k)

\* the indices of the rows of key k, ascending
RECURSIVE rows_of_key(_, _, _)
rows_of_key(c, rs, k) ==
    IF rs = <<>> THEN <<>>
    ELSE LET before == rows_of_key(c, SubSeq(rs, 1, Len(rs) - 1), k)
         IN  IF move_key(c, rs[Len(rs)]) = k THEN Append(before, Len(rs)) ELSE before

\* C8: when the aggregator returns without raising, it has emitted exactly
\* one move per distinct key journal.code/move_name, in the order the keys
\* were first seen, each with its lines in the order of their rows.
C8_OneMovePerKeyInOrder ==
    pc = "done" =>
        /\ [n \in DOMAIN emitted |-> emitted[n].key] = first_seen_keys(cache, rows)
        /\ \A n \in DOMAIN emitted :
              emitted[n].line_ids = rows_of_key(cache, rows, emitted[n].key)

\* C8 witness: key, other key, first key again; two moves emitted
C8_Witness ==
    /\ pc = "done"
    /\ Len(rows) = 3
    /\ Len(emitted) = 2
    /\ emitted[1].line_ids = <<1, 3>>
    /\ emitted[2].line_ids = <<2>>

\* C9: after the stream has been aggregated, every bucket (journal, date)
\* holds exactly the lines of the moves of that journal and date.
C9_BucketHoldsLinesOfItsMoves ==
    (pc # "raised" /\ idx = Len(rows)) =>
        \A b \in DOMAIN imbalances :
            Range(imbalances[b]) =
                UNION {Range(moves_dict[p].line_ids) : p \in {q \in DOMAIN moves_dict :
                          moves_dict[q].journal_id = b[1] /\ moves_dict[q].date = b[2]}}

\* balance_dict as the loop leaves it for a stream of error-free rows
RECURSIVE agg_balances(_, _)
agg_balances(c, rs) ==
    IF rs = <<>> THEN <<>>
    ELSE balance_dict_put(agg_balances(c, SubSeq(rs, 1, Len(rs) - 1)), c, rs[Len(rs)])

\* the reorderings of the stream that only move rows among rows of their key
SameKeyPermutations(c, rs) ==
    {f \in Permutations(DOMAIN rs) :
        \A i \in DOMAIN rs : move_key(c, rs[f[i]]) = move_key(c, rs[i])}

\* C6: reordering the rows of a move key gives, for every key, the same
\* final balance in balance_dict and the same set of lines.
C6_OrderInvariantGrouping ==
    (pc = "rows" /\ idx = Len(rows)) =>
        \A f \in SameKeyPermutations(cache, rows) :
            LET rs == [i \in DOMAIN rows |-> rows[f[i]]]
            IN  \A p \in DOMAIN moves_dict :
                   LET k == moves_dict[p].key
                   IN  /\ agg_balances(cache, rs)[k].balance = balance_dict[k].balance
                       /\ {build_line(cache, rs[i]) : i \in Range(rows_of_key(cache, rs, k))}
                            = {lines[i] : i \in Range(moves_dict[p].line_ids)}

\* C7: a line refers to a partner (partner_id present and not False) exactly
\* when its row carried a non-empty CompAuxNum found in res.partner.ref.
C7_PartnerIffRefResolves ==
    \A i \in DOMAIN lines :
        (lines[i].has_partner_id /\ lines[i].partner_id # 0)
            <=> (rows[i].CompAuxNum # "" /\ Has(cache.partner_ref, rows[i].CompAuxNum))

\* C7 witness: one line resolved its partner, another carried an unknown ref
C7_Witness ==
    /\ Len(lines) = 2
    /\ rows[1].CompAuxNum = "R1" /\ lines[1].partner_id = 7
    /\ rows[2].CompAuxNum = "R9" /\ lines[2].has_partner_id /\ lines[2].partner_id = 0

C4_PartnerDedup ==
    /\ \A m, n \in DOMAIN payloads :
          m # n =>
             <<rows[payloads[m].row].CompAuxLib, rows[payloads[m].row].CompAuxNum>>
               # <<rows[payloads[n].row].CompAuxLib, rows[payloads[n].row].CompAuxNum>>
    /\ \A n \in DOMAIN payloads : rows[payloads[n].row].CompAuxLib # ""

\* C4 witness: rows 1 and 3 share name and ref, row 2 has no name, and the
\* generator returned having produced the payload of row 1 only
C4_Witness ==
    /\ ppc = "done"
    /\ Len(rows) = 3
    /\ rows[1].CompAuxLib = "Bolt"
    /\ rows[3].CompAuxLib = "Bolt"
    /\ rows[1].CompAuxNum = rows[3].CompAuxNum
    /\ rows[2].CompAuxLib = ""
    /\ Len(payloads) = 1
    /\ payloads[1].row = 1

\* C3 as stated: when a row error is raised in an import run, _load_records
\* has been called for no kind and the cache has not been extended.
C3_NothingLoadedOnRowError ==
    (ipc # "idle" /\ RowErrorRaised) => (loaded = <<>> /\ cache_ext = {})

\* C3 amended: when a row error is raised in an import run, the aggregator
\* has yielded no move and _load_records has not been called for
\* account.move, nor the cache extended with moves; only kinds that precede
\* account.move in the list may have been loaded and folded into the cache.
C3_NoMoveLoadedOnRowError ==
    (ipc # "idle" /\ RowErrorRaised) =>
        /\ emitted = <<>>
        /\ "account.move" \notin Range(loaded)
        /\ "account.move" \notin cache_ext
        /\ \A n \in DOMAIN loaded : \E j \in 1..mi : models[j] = loaded[n]

\* C3 witness: the error is raised after partners were loaded and folded in
C3_Witness ==
    /\ ipc = "aborted"
    /\ RowErrorRaised
    /\ err[2] = 1
    /\ loaded = <<"res.partner">>
    /\ cache_ext = {"res.partner"}

\* res.partner stands before account.move in the list of kinds
PartnerBeforeMove ==
    \E i, j \in DOMAIN models :
        i < j /\ models[i] = "res.partner" /\ models[j] = "account.move"

\* the partner generator has returned and what it created is in the cache
PartnersFolded ==
    /\ ppc = "done"
    /\ payloads # <<>> =>
          /\ "res.partner" \in Range(loaded)
          /\ "res.partner" \in cache_ext

\* C10 as stated: in every import run, once the aggregator has consumed a
\* row the partner generator has returned and its partners are in the cache.
C10_PartnersFoldedBeforeMoves ==
    (ipc # "idle" /\ AggConsumed) => PartnersFolded

\* C10 amended: in a run whose list has res.partner before account.move, the
\* partner generator has returned and its partners, if any, are loaded and
\* folded into the cache before the aggregator consumes its first row; in a
\* run with the default list the partner generator never runs.
C10_PartnersFoldedWhenListed ==
    /\ (ipc # "idle" /\ AggConsumed /\ PartnerBeforeMove) => PartnersFolded
    /\ (ipc # "idle" /\ models = DefaultModels) => (ppc = "rows" /\ pidx = 0)

\* C10 witness: partners were created, loaded and folded in, then the
\* aggregator consumed its first row
C10_Witness ==
    /\ ipc = "loop"
    /\ models = <<"res.partner", "account.move">>
    /\ Len(payloads) = 2
    /\ "res.partner" \in cache_ext
    /\ loaded = <<"res.partner">>
    /\ idx = 1

====
